---- MODULE Spec2Model ----
(***************************************************************************)
(* Model of src/models.py: the Dog and Breed entities and the DogHouse     *)
(* aggregate (paginated loading of breeds and dogs, the four statistics,   *)
(* and the submission of the summary).                                     *)
(*                                                                         *)
(* The transport (utils.get / utils.post) is the environment: every GET    *)
(* is answered with an arbitrary response drawn from the bounded sets      *)
(* below.  One DogHouse is modelled, with get_data called at most once on  *)
(* it (the usage the class documents, src/models.py:71-85).                *)
(*                                                                         *)
(* Python values are encoded as follows:                                   *)
(*   - a URL is a tuple, None (and any falsy URL) is the empty tuple;      *)
(*   - an optional object (Breed or None) is a tuple of length 0 or 1.     *)
(***************************************************************************)
EXTENDS Integers, Sequences, FiniteSets, TLC

VARIABLES
    breeds,       \* DogHouse.breeds : list of Breed (id, name, dogs)
    dogs,         \* DogHouse.dogs   : list of Dog (id, name, breed)
    pc,           \* position of the caller: idle, probe, get, for, done, raised
    step,         \* index into GetDataOrder of the loader that is running
    url,          \* url_breeds / url_dogs: the URL of the next GET
    results,      \* records of the current response not yet iterated
    next,         \* response.get('next') of the current response
    gets,         \* history: every GET response received (endpoint, kind, next)
    breedServed,  \* history: breed records the transport served in pages
    dogServed,    \* history: dog records the transport served in pages
    posts,        \* history: every POST issued (url, payload)
    sendCalls,    \* history: number of send_data calls made
    sendErr,      \* outcome of the last send_data call
    ret           \* result of the last statistics call (op, val)

vars == <<breeds, dogs, pc, step, url, results, next, gets, breedServed,
          dogServed, posts, sendCalls, sendErr, ret>>

----------------------------------------------------------------------------
(* Bounds of the model *)

MaxBreeds == 2     \* breed records the transport serves in one run
MaxDogs == 2       \* dog records the transport serves in one run
MaxPages == 2      \* page responses per loader
MaxSends == 1      \* send_data calls
StatMaxBreeds == 2 \* breeds of an aggregate drawn for the statistics
StatMaxDogs == 4   \* dog records of an aggregate drawn for the statistics

(* Program constant: min(100, total_breeds) *)
PageLimit == 100

(* Sample values the transport draws from *)
BreedRecords == {[id |-> 1, name |-> "Kiltro"], [id |-> 2, name |-> "Poodle"]}
BreedIds == {r.id : r \in BreedRecords}
DogBreedRefs == {1, 2, 3}
UnknownBreedId == CHOOSE id \in DogBreedRefs : id \notin BreedIds
DogNames == {"Rex", "Fido"}
DogFields == [name : DogNames, breed : DogBreedRefs]
Counts == {0, 1, PageLimit + 1}

None == <<>>
NextPage == <<"next">>
Nexts == {None, NextPage}

SeqsUpTo(S, n) == UNION {[1..k -> S] : k \in 0..n}

Min(a, b) == IF a < b THEN a ELSE b

----------------------------------------------------------------------------
(* Entities *)

\* Dog.__init__
Dog(id, name, breed) == [id |-> id, name |-> name, breed |-> breed]

\* Breed.__init__
Breed(id, name) == [id |-> id, name |-> name, dogs |-> <<>>]

add_dog_dropped(b, dog) == b

\* Breed.add_dog
add_dog(b, dog) == [b EXCEPT !.dogs = Append(@, dog)]

\* Breed.dogs_count
dogs_count(b) == Len(b.dogs)

----------------------------------------------------------------------------
(* URLs *)

BreedsUrl(limit) == <<"/api/v1/breeds/", limit>>
DogsUrl == <<"/api/v1/dogs/">>
AnswerUrl == <<"/api/v1/answer/">>

WhileUrlOnce(u) == FALSE

\* while url_breeds: / while url_dogs:
WhileUrl(u) == u # None

----------------------------------------------------------------------------
(* Loading *)

GetDataOrderSwapped == <<"dogs", "breeds">>

\* get_data: the loaders in the order it calls them
GetDataOrder == <<"breeds", "dogs">>

Loader == IF step \in 1..Len(GetDataOrder) THEN GetDataOrder[step] ELSE "none"

RECURSIVE FirstMatch(_, _, _)
FirstMatch(bs, id, i) ==
    IF i > Len(bs) THEN 0
    ELSE IF bs[i].id = id THEN i
    ELSE FirstMatch(bs, id, i + 1)

FindBreedOrFirst(bs, id) ==
    LET i == FirstMatch(bs, id, 1) IN IF i = 0 /\ bs # <<>> THEN 1 ELSE i

\* next((b for b in self.breeds if b.id == breed_id), None): index, 0 for None
FindBreed(bs, id) == FirstMatch(bs, id, 1)

\* body of the for loop of _get_breeds_data
ProcessBreed(agg, rec) ==
    [agg EXCEPT !.breeds = Append(@, Breed(rec.id, rec.name))]

\* body of the for loop of _get_dogs_data
ProcessDog(agg, rec) ==
    LET i == FindBreed(agg.breeds, rec.breed) IN
    IF i # 0
    THEN LET dog == Dog(rec.id, rec.name, agg.breeds[i].id) IN
         [breeds |-> [agg.breeds EXCEPT ![i] = add_dog(@, dog)],
          dogs |-> Append(agg.dogs, dog)]
    ELSE agg

\* the transport numbers the dog records it serves: ids n+1, n+2, ...
NumberDogs(fields, n) ==
    [k \in 1..Len(fields) |->
        [id |-> n + k, name |-> fields[k].name, breed |-> fields[k].breed]]

Pages(ep) == SelectSeq(gets, LAMBDA g : g.ep = ep /\ g.kind = "page")

\* what follows the return of the loader at position k of get_data
StartLoader(k) ==
    /\ step' = k
    /\ IF k > Len(GetDataOrder)
       THEN pc' = "done" /\ url' = None
       ELSE IF GetDataOrder[k] = "breeds"
       THEN pc' = "probe" /\ url' = BreedsUrl(1)
       ELSE pc' = "get" /\ url' = DogsUrl

\* DogHouse.get_data is called
CallGetData ==
    /\ pc = "idle"
    /\ StartLoader(1)
    /\ UNCHANGED <<breeds, dogs, results, next, gets, breedServed, dogServed,
                   posts, sendCalls, sendErr, ret>>

\* _get_breeds_data: the probe GET and its response
ProbeBreeds ==
    /\ pc = "probe"
    /\ \E count \in Counts, nxt \in Nexts :
          /\ url' = BreedsUrl(Min(PageLimit, count))
          /\ gets' = Append(gets, [ep |-> "breeds", kind |-> "probe", next |-> nxt])
    /\ pc' = "get"
    /\ UNCHANGED <<breeds, dogs, step, results, next, breedServed, dogServed,
                   posts, sendCalls, sendErr, ret>>

\* response = get(url_breeds, token) inside the while loop
GetBreedsPage ==
    /\ pc = "get" /\ Loader = "breeds"
    /\ Len(Pages("breeds")) < MaxPages
    /\ \E page \in SeqsUpTo(BreedRecords, MaxBreeds - Len(breedServed)),
          nxt \in Nexts :
          /\ Len(Pages("breeds")) + 1 = MaxPages => nxt = None
          /\ results' = page
          /\ next' = nxt
          /\ breedServed' = breedServed \o page
          /\ gets' = Append(gets, [ep |-> "breeds", kind |-> "page", next |-> nxt])
    /\ pc' = "for"
    /\ UNCHANGED <<breeds, dogs, step, url, dogServed, posts, sendCalls,
                   sendErr, ret>>

\* response = get(url_dogs, token) inside the while loop
GetDogsPage ==
    /\ pc = "get" /\ Loader = "dogs"
    /\ Len(Pages("dogs")) < MaxPages
    /\ \E fields \in SeqsUpTo(DogFields, MaxDogs - Len(dogServed)),
          nxt \in Nexts :
          /\ Len(Pages("dogs")) + 1 = MaxPages => nxt = None
          /\ results' = NumberDogs(fields, Len(dogServed))
          /\ next' = nxt
          /\ dogServed' = dogServed \o NumberDogs(fields, Len(dogServed))
          /\ gets' = Append(gets, [ep |-> "dogs", kind |-> "page", next |-> nxt])
    /\ pc' = "for"
    /\ UNCHANGED <<breeds, dogs, step, url, breedServed, posts, sendCalls,
                   sendErr, ret>>

\* one iteration of: for breed_data in response.get('results', [])
ForBreed ==
    /\ pc = "for" /\ Loader = "breeds" /\ results # <<>>
    /\ LET agg == ProcessBreed([breeds |-> breeds, dogs |-> dogs], Head(results)) IN
          breeds' = agg.breeds /\ dogs' = agg.dogs
    /\ results' = Tail(results)
    /\ UNCHANGED <<pc, step, url, next, gets, breedServed, dogServed, posts,
                   sendCalls, sendErr, ret>>

\* one iteration of: for dog_data in response.get('results', [])
ForDog ==
    /\ pc = "for" /\ Loader = "dogs" /\ results # <<>>
    /\ LET agg == ProcessDog([breeds |-> breeds, dogs |-> dogs], Head(results)) IN
          breeds' = agg.breeds /\ dogs' = agg.dogs
    /\ results' = Tail(results)
    /\ UNCHANGED <<pc, step, url, next, gets, breedServed, dogServed, posts,
                   sendCalls, sendErr, ret>>

\* url = response.get('next', None), then the while test
EndOfPage ==
    /\ pc = "for" /\ results = <<>>
    /\ IF WhileUrl(next)
       THEN pc' = "get" /\ url' = next /\ step' = step
       ELSE StartLoader(step + 1)
    /\ UNCHANGED <<breeds, dogs, results, next, gets, breedServed, dogServed,
                   posts, sendCalls, sendErr, ret>>

----------------------------------------------------------------------------
(* Statistics *)

\* DogHouse.get_total_breeds
get_total_breeds == Len(breeds)

\* DogHouse.get_total_dogs
get_total_dogs == Len(dogs)

RECURSIVE MaxScanLast(_, _, _)
MaxScanLast(keys, i, best) ==
    IF i > Len(keys) THEN best
    ELSE MaxScanLast(keys, i + 1, IF keys[i] >= keys[best] THEN i ELSE best)

PyMaxIndexLast(keys) == MaxScanLast(keys, 2, 1)

RECURSIVE MaxScan(_, _, _)
MaxScan(keys, i, best) ==
    IF i > Len(keys) THEN best
    ELSE MaxScan(keys, i + 1, IF keys[i] > keys[best] THEN i ELSE best)

\* max(iterable, key=...) of a non-empty list: the index of the item returned
PyMaxIndex(keys) == MaxScan(keys, 2, 1)

\* DogHouse.get_common_breed: <<>> for None, <<breed>> otherwise
get_common_breed ==
    IF breeds = <<>> THEN None
    ELSE <<breeds[PyMaxIndex([i \in 1..Len(breeds) |-> dogs_count(breeds[i])])]>>

CounterAddOnce(c, name) ==
    IF \E i \in 1..Len(c) : c[i].name = name
    THEN c
    ELSE Append(c, [name |-> name, count |-> 1])

\* Counter: one more occurrence of name (a dict keeps insertion order)
CounterAdd(c, name) ==
    IF \E i \in 1..Len(c) : c[i].name = name
    THEN [i \in 1..Len(c) |->
            IF c[i].name = name THEN [c[i] EXCEPT !.count = @ + 1] ELSE c[i]]
    ELSE Append(c, [name |-> name, count |-> 1])

RECURSIVE CounterOf(_, _)
\* Counter(dog.name for dog in self.dogs), from the i-th dog on
CounterOf(c, i) ==
    IF i > Len(dogs) THEN c ELSE CounterOf(CounterAdd(c, dogs[i].name), i + 1)

\* DogHouse.get_common_dog_name; most_common(1) is max over the items by count
get_common_dog_name ==
    IF dogs = <<>> THEN ""
    ELSE LET name_count == CounterOf(<<>>, 1) IN
         name_count[PyMaxIndex([i \in 1..Len(name_count) |-> name_count[i].count])].name

----------------------------------------------------------------------------
(* Submission *)

DataArgs ==
    {[totalBreeds |-> 0, totalDogs |-> 0, commonBreed |-> "", commonDogName |-> ""],
     [totalBreeds |-> 7, totalDogs |-> 9, commonBreed |-> "Akita", commonDogName |-> "Bobby"]}

SendPayloadFromArg(data) == data

\* the dict send_data builds (the breed list is not empty)
SendPayload(data) ==
    [totalBreeds |-> get_total_breeds,
     totalDogs |-> get_total_dogs,
     commonBreed |-> get_common_breed[1].name,
     commonDogName |-> get_common_dog_name]

\* DogHouse.send_data(data, token), called outside get_data; an exception
\* it raises is not caught by the caller, whose run ends there
SendData ==
    /\ pc \in {"idle", "done"}
    /\ sendCalls < MaxSends
    /\ \E data \in DataArgs :
          IF get_common_breed = None
          THEN \* None.name raises AttributeError before post is reached
               /\ sendErr' = "AttributeError"
               /\ posts' = posts
               /\ pc' = "raised"
          ELSE /\ sendErr' = "ok"
               /\ posts' = Append(posts, [url |-> AnswerUrl,
                                          payload |-> SendPayload(data)])
               /\ pc' = pc
    /\ sendCalls' = sendCalls + 1
    /\ UNCHANGED <<breeds, dogs, step, url, results, next, gets,
                   breedServed, dogServed, ret>>

----------------------------------------------------------------------------
(* The DogHouse and its transport *)

Init ==
    /\ breeds = <<>>
    /\ dogs = <<>>
    /\ pc = "idle"
    /\ step = 0
    /\ url = None
    /\ results = <<>>
    /\ next = None
    /\ gets = <<>>
    /\ breedServed = <<>>
    /\ dogServed = <<>>
    /\ posts = <<>>
    /\ sendCalls = 0
    /\ sendErr = "none"
    /\ ret = [op |-> "none", val |-> <<>>]

Next ==
    \/ CallGetData
    \/ ProbeBreeds
    \/ GetBreedsPage
    \/ GetDogsPage
    \/ ForBreed
    \/ ForDog
    \/ EndOfPage
    \/ SendData

Spec == Init /\ [][Next]_vars

----------------------------------------------------------------------------
(* The statistics on their own: any aggregate get_data can have built from  *)
(* one page of breeds and one page of dogs, then the statistics are called. *)

RECURSIVE LoadAll(_, _, _, _)
\* the for loop of a loader over one page of records, from the i-th on
LoadAll(agg, recs, i, ep) ==
    IF i > Len(recs) THEN agg
    ELSE LoadAll(IF ep = "breeds" THEN ProcessBreed(agg, recs[i])
                 ELSE ProcessDog(agg, recs[i]),
                 recs, i + 1, ep)

StatInit ==
    \E brecs \in SeqsUpTo(BreedRecords, StatMaxBreeds),
       fields \in SeqsUpTo(DogFields, StatMaxDogs) :
       LET drecs == NumberDogs(fields, 0)
           empty == [breeds |-> <<>>, dogs |-> <<>>]
           agg == LoadAll(LoadAll(empty, brecs, 1, "breeds"), drecs, 1, "dogs")
       IN /\ breeds = agg.breeds
          /\ dogs = agg.dogs
          /\ pc = "done"
          /\ step = Len(GetDataOrder) + 1
          /\ url = None
          /\ results = <<>>
          /\ next = None
          /\ gets = <<[ep |-> "breeds", kind |-> "probe", next |-> None],
                      [ep |-> "breeds", kind |-> "page", next |-> None],
                      [ep |-> "dogs", kind |-> "page", next |-> None]>>
          /\ breedServed = brecs
          /\ dogServed = drecs
          /\ posts = <<>>
          /\ sendCalls = 0
          /\ sendErr = "none"
                /\ ret = [op |-> "none", val |-> <<>>]

\* common_breed = dog_house.get_common_breed()
CallGetCommonBreed ==
    /\ pc = "done"
    /\ ret' = [op |-> "get_common_breed", val |-> get_common_breed]
    /\ UNCHANGED <<breeds, dogs, pc, step, url, results, next, gets,
                   breedServed, dogServed, posts, sendCalls, sendErr>>

\* common_dog_name = dog_house.get_common_dog_name()
CallGetCommonDogName ==
    /\ pc = "done"
    /\ ret' = [op |-> "get_common_dog_name", val |-> <<get_common_dog_name>>]
    /\ UNCHANGED <<breeds, dogs, pc, step, url, results, next, gets,
                   breedServed, dogServed, posts, sendCalls, sendErr>>

StatNext ==
    \/ CallGetCommonBreed
    \/ CallGetCommonDogName

StatSpec == StatInit /\ [][StatNext]_vars

----------------------------------------------------------------------------
(* Properties *)

\* the dog records the for loop of _get_dogs_data has iterated so far
DogsIterated ==
    SubSeq(dogServed, 1,
           Len(dogServed) - (IF pc = "for" /\ Loader = "dogs" THEN Len(results) ELSE 0))

\* the breed records the for loop of _get_breeds_data has iterated so far
BreedsIterated ==
    SubSeq(breedServed, 1,
           Len(breedServed) - (IF pc = "for" /\ Loader = "breeds" THEN Len(results) ELSE 0))

KnownBreed(id) == \E i \in 1..Len(breeds) : breeds[i].id = id

BreedKeys == [i \in 1..Len(breeds) |-> [id |-> breeds[i].id, name |-> breeds[i].name]]

RECURSIVE SumCounts(_)
SumCounts(i) == IF i > Len(breeds) THEN 0 ELSE dogs_count(breeds[i]) + SumCounts(i + 1)

\* C1: at every point during and after get_data, every dog of the dog list
\* has the id of a loaded breed as its breed; a dog record whose breed id
\* matches no loaded breed is dropped: the dog list is exactly the iterated
\* records with a known breed, and no breed's dog list holds any other dog.
C1_DogsReferenceLoadedBreeds ==
    LET kept == SelectSeq(DogsIterated, LAMBDA r : KnownBreed(r.breed)) IN
    /\ \A k \in 1..Len(dogs) : KnownBreed(dogs[k].breed)
    /\ dogs = kept
    /\ get_total_dogs = Len(kept)
    /\ \A i \in 1..Len(breeds) : \A k \in 1..Len(breeds[i].dogs) :
          \E m \in 1..Len(kept) : kept[m] = breeds[i].dogs[k]

\* C1 witness: get_data is over, a record with an unknown breed was served
\* after a record with a known breed, and only the latter is in the lists.
C1_Witness ==
    /\ pc = "done"
    /\ Len(dogServed) = 2
    /\ KnownBreed(dogServed[1].breed)
    /\ dogServed[2].breed = UnknownBreedId
    /\ Len(dogs) = 1
    /\ SumCounts(1) = 1

\* C2 (as claimed): after get_data, the dog list of every breed is exactly
\* the dogs of the dog list whose breed is that breed's id, in the same order.
C2_BreedDogsAreDogsOfBreed ==
    pc = "done" =>
        \A i \in 1..Len(breeds) :
            breeds[i].dogs = SelectSeq(dogs, LAMBDA d : d.breed = breeds[i].id)

\* C3 (as claimed): in every reachable state no two entries of the breed
\* list have the same id.
C3_BreedIdsUnique ==
    \A i, j \in 1..Len(breeds) : i # j => breeds[i].id # breeds[j].id

\* C4: at every point during and after get_data, get_total_dogs() is the
\* sum of dogs_count() over the breeds of the breed list.
C4_TotalDogsIsSumOfCounts == get_total_dogs = SumCounts(1)

\* C4 witness: two breeds hold one dog each and a third record was dropped
\* or is yet to come.
C4_Witness ==
    /\ Len(breeds) = 2
    /\ dogs_count(breeds[1]) = 1
    /\ dogs_count(breeds[2]) = 1
    /\ get_total_dogs = 2

\* C5: get_common_breed returns None for an empty breed list, and otherwise
\* the breed with the greatest dogs_count(), the first such breed of the
\* breed list when several share the greatest count.
C5_CommonBreedIsFirstMax ==
    ret.op = "get_common_breed" =>
        IF breeds = <<>> THEN ret.val = <<>>
        ELSE \E i \in 1..Len(breeds) :
                /\ ret.val = <<breeds[i]>>
                /\ \A j \in 1..Len(breeds) : dogs_count(breeds[j]) <= dogs_count(breeds[i])
                /\ \A j \in 1..(i - 1) : dogs_count(breeds[j]) < dogs_count(breeds[i])

\* C5 witness: two breeds of two dogs each, and the first one was returned.
C5_Witness ==
    /\ ret.op = "get_common_breed"
    /\ Len(breeds) = 2
    /\ breeds[1].id # breeds[2].id
    /\ dogs_count(breeds[1]) = 2
    /\ dogs_count(breeds[2]) = 2
    /\ ret.val = <<breeds[1]>>

Occurrences(name) == Cardinality({k \in 1..Len(dogs) : dogs[k].name = name})

FirstSeen(name) ==
    CHOOSE k \in 1..Len(dogs) :
        /\ dogs[k].name = name
        /\ \A m \in 1..(k - 1) : dogs[m].name # name

\* C6: get_common_dog_name returns "" for an empty dog list, and otherwise
\* the name that occurs most often in the dog list, the one met first in
\* the dog list when several names occur equally often.
C6_CommonDogNameIsFirstMostFrequent ==
    ret.op = "get_common_dog_name" =>
        IF dogs = <<>> THEN ret.val = <<"">>
        ELSE LET n == ret.val[1] IN
             /\ \E k \in 1..Len(dogs) : dogs[k].name = n
             /\ \A k \in 1..Len(dogs) :
                   LET x == dogs[k].name IN
                   /\ Occurrences(x) <= Occurrences(n)
                   /\ (Occurrences(x) = Occurrences(n) /\ x # n)
                         => FirstSeen(n) < FirstSeen(x)

\* C6 witness: the dogs are named Rex, Fido, Rex, Fido and Rex was returned.
C6_Witness ==
    /\ ret.op = "get_common_dog_name"
    /\ [k \in 1..Len(dogs) |-> dogs[k].name] = <<"Rex", "Fido", "Rex", "Fido">>
    /\ ret.val = <<"Rex">>

Responses(ep) == SelectSeq(gets, LAMBDA g : g.ep = ep)

LoaderIndex(ep) == CHOOSE k \in 1..Len(GetDataOrder) : GetDataOrder[k] = ep

LoaderReturned(ep) == step > LoaderIndex(ep)

\* only the last response of the sequence may have a null next
OnlyLastIsNull(rs) == \A k \in 1..(Len(rs) - 1) : rs[k].next # None

C8_ExplicitNoBreedDataError ==
    (sendCalls > 0 /\ breeds = <<>>) =>
        sendErr = "NoBreedDataError" /\ posts = <<>>

\* C9: with at least one breed, a call of send_data issues exactly one POST
\* to the answer endpoint, its payload being the four statistics of the
\* current aggregate whatever the data argument is, and leaves the breed
\* and dog lists unchanged.
C9_SendPostsCurrentStatistics ==
    [][(sendCalls' = sendCalls + 1 /\ breeds # <<>>) =>
          /\ posts' = Append(posts,
                [url |-> AnswerUrl,
                 payload |-> [totalBreeds |-> get_total_breeds,
                              totalDogs |-> get_total_dogs,
                              commonBreed |-> get_common_breed[1].name,
                              commonDogName |-> get_common_dog_name]])
          /\ breeds' = breeds
          /\ dogs' = dogs]_vars

\* C9 witness: send_data was called on an aggregate of two breeds and two
\* dogs, and one POST was issued, its payload none of the possible arguments.
C9_Witness ==
    /\ sendCalls = 1
    /\ Len(posts) = 1
    /\ Len(breeds) = 2
    /\ Len(dogs) = 2
    /\ posts[1].payload \notin DataArgs
    /\ posts[1].payload.totalBreeds = 2
    /\ posts[1].payload.commonBreed = "Poodle"

\* C10: no GET to the dogs endpoint is issued before the breed loader has
\* received a page response whose next is null; from the first dog request
\* on no breed request is issued and the breed list is all breeds served.
C10_BreedsLoadedBeforeDogs ==
    /\ \A k \in 1..Len(gets) :
          gets[k].ep = "dogs" =>
             /\ \E j \in 1..(k - 1) :
                   gets[j].ep = "breeds" /\ gets[j].kind = "page" /\ gets[j].next = None
             /\ \A j \in (k + 1)..Len(gets) : gets[j].ep = "dogs"
    /\ (Loader = "dogs" \/ Responses("dogs") # <<>>) =>
          /\ BreedKeys = breedServed
          /\ Pages("breeds") # <<>>
          /\ Pages("breeds")[Len(Pages("breeds"))].next = None

\* C10 witness: the breeds came in two pages, and a dog of a breed of the
\* second page was resolved.
C10_Witness ==
    /\ Len(Pages("breeds")) = 2
    /\ Len(breeds) = 2
    /\ breeds[1].id # breeds[2].id
    /\ Responses("dogs") # <<>>
    /\ dogs_count(breeds[2]) = 1
    /\ gets[2].next = NextPage

====
